---- MODULE Spec2Model ----
(***************************************************************************)
(* Story-progression state machine of the detective game (App.tsx) and the *)
(* generation client (services/geminiService.ts).                          *)
(*                                                                         *)
(* A state is one rendered state of the App component plus the requests    *)
(* that are out at the generative service.  Every click handler runs to    *)
(* completion (React flushes the state updates of a click before the next  *)
(* event is dispatched), so a handler is one action; the code after an     *)
(* await is a separate action that fires when the service answers.         *)
(***************************************************************************)
EXTENDS Naturals, Sequences, FiniteSets

VARIABLES gameState, currentScene, storyHistory, isLoading,
          hint, isHintLoading, isHintUsed, bgMusicPlaying,
          sceneRequests, hintRequests,
          issued, hintsIssued,
          parsedJson, returned

(* sceneRequests and hintRequests hold the requests that are out at the
   service, in the order they were sent.  issued counts the scene requests
   sent so far, hintsIssued the hint requests sent for the scene that is
   installed now.  parsedJson and returned are the input and the result of
   the shape check when it is exercised on its own (SpecShape). *)
appVars == <<gameState, currentScene, storyHistory, isLoading,
             hint, isHintLoading, isHintUsed>>
vars == <<gameState, currentScene, storyHistory, isLoading,
          hint, isHintLoading, isHintUsed, bgMusicPlaying,
          sceneRequests, hintRequests, issued, hintsIssued,
          parsedJson, returned>>

(* Bounds of the model: the number of scene requests sent in one run, and
   in one run of the specification with fairness. *)
MaxIssued == 4
MaxLiveIssued == 3

(***************************************************************************)
(* JSON values.  A value carries its JavaScript type tag; s is the payload *)
(* of a string, number or boolean token and a the payload of an array.     *)
(***************************************************************************)
Undefined == [t |-> "undefined", s |-> "", a |-> <<>>]
Null == [t |-> "null", s |-> "", a |-> <<>>]
Str(x) == [t |-> "string", s |-> x, a |-> <<>>]
Num(x) == [t |-> "number", s |-> x, a |-> <<>>]
Bool(b) == [t |-> "boolean", s |-> IF b THEN "true" ELSE "false", a |-> <<>>]
Arr(q) == [t |-> "array", s |-> "", a |-> q]

(* JavaScript truthiness, as used by `&&` and `if`. *)
Truthy(v) ==
    CASE v.t = "undefined" -> FALSE
      [] v.t = "null" -> FALSE
      [] v.t = "string" -> v.s # ""
      [] v.t = "number" -> v.s # "0"
      [] v.t = "boolean" -> v.s = "true"
      [] OTHER -> TRUE

(* A parsed response object / a StoryScene: the four fields of types.ts. *)
Obj(sc, ch, en, ty) == [scene |-> sc, choices |-> ch, isEnding |-> en, sceneType |-> ty]

(* currentScene === null *)
NoScene == Obj(Null, Null, Null, Null)

(* The fixed fallback scene returned from the catch block. *)
FallbackNarrative == "unexpected error"
(* Variant: a fallback that is not flagged as ending. *)
MutFallbackScene ==
    Obj(Str(FallbackNarrative), Arr(<<"restart">>), Bool(FALSE), Str("negative"))
FallbackScene ==
    Obj(Str(FallbackNarrative), Arr(<<"restart">>), Bool(TRUE), Str("negative"))

(***************************************************************************)
(* What the service call can produce: a transport error, a text that is    *)
(* not JSON, the JSON text `null`, or a JSON object.                       *)
(***************************************************************************)
Response(kind, body) == [kind |-> kind, body |-> body]
TransportError == Response("transportError", NoScene)
NotJson == Response("notJson", NoScene)
JsonNull == Response("jsonNull", NoScene)
Json(o) == Response("json", o)

(* The shape check of generateStoryScene on a parsed object. *)
ShapeOk(o) == Truthy(o.scene) /\ Truthy(o.choices) /\ o.isEnding.t # "undefined"

(* generateStoryScene: every failure inside the try ends in the fallback. *)
GenerateStoryScene(history, resp) ==
    IF resp.kind = "json" /\ ShapeOk(resp.body) THEN resp.body ELSE FallbackScene

(* Answers of the scene service that the model draws from. *)
OpeningScene == Obj(Str("X"), Arr(<<"A", "B">>), Bool(FALSE), Str("neutral"))
EndingScene == Obj(Str("Y"), Arr(<<"A">>), Bool(TRUE), Undefined)
MissingFlag == Obj(Str("X"), Arr(<<"A">>), Undefined, Undefined)
NoChoicesScene == Obj(Str("X"), Arr(<<>>), Bool(FALSE), Undefined)
TextFlag == Obj(Str("Y"), Arr(<<"A">>), Str("no"), Undefined)
SceneResponses ==
    {Json(OpeningScene), Json(EndingScene), Json(MissingFlag), Json(NoChoicesScene),
     Json(TextFlag), TransportError, NotJson}

(***************************************************************************)
(* The prompt, as the sequence of its pieces: the fixed texts of the       *)
(* templates are single tokens, the interpolated values are themselves.    *)
(***************************************************************************)
(* `${v}` for a JSON value. *)
Text(v) == IF v.t \in {"undefined", "null"} THEN v.t ELSE v.s

(* The decimal digits of a number, as `${index + 1}` prints it. *)
Digit(d) == <<"0", "1", "2", "3", "4", "5", "6", "7", "8", "9">>[d + 1]
RECURSIVE Decimal(_)
Decimal(n) == IF n < 10 THEN <<Digit(n)>> ELSE Decimal(n \div 10) \o <<Digit(n % 10)>>

(* Variant: the entries are numbered from the array index, without the + 1. *)
MutFormatTurn(turn, index) ==
    <<"Scene ">> \o Decimal(index) \o
    <<": ", Text(turn.scene), "\n", "Choice made: ", turn.choice>>
(* One entry of the transcript; index is the zero-based array index. *)
FormatTurn(turn, index) ==
    <<"Scene ">> \o Decimal(index + 1) \o
    <<": ", Text(turn.scene), "\n", "Choice made: ", turn.choice>>

RECURSIVE JoinTurns(_, _)
JoinTurns(history, n) ==
    IF n = 1 THEN FormatTurn(history[1], 0)
    ELSE JoinTurns(history, n - 1) \o <<"\n\n">> \o FormatTurn(history[n], n - 1)

FormatStoryHistory(history) ==
    IF Len(history) = 0 THEN <<"No history yet.">> ELSE JoinTurns(history, Len(history))

ScenePrompt(history) ==
    IF Len(history) = 0
    THEN <<"opening instruction">>
    ELSE <<"continuation: the story so far">> \o FormatStoryHistory(history)
             \o <<"continuation: what to write next">>

(* One call of generateStoryScene that has not returned yet; id is the
   position of the call among all calls of fetchScene. *)
SceneRequest(history, id) ==
    [history |-> history, id |-> id, prompt |-> ScenePrompt(history)]

(***************************************************************************)
(* Hints.  hint is null, the text the service produced for one request     *)
(* (identified by the history and scene the request carried), or the fixed *)
(* text generateHint returns from its catch block.  generateHint never     *)
(* rejects, so the catch block of handleGetHint is unreachable.            *)
(***************************************************************************)
HintValue(kind, history, scene) == [kind |-> kind, history |-> history, scene |-> scene]
NoHint == HintValue("null", <<>>, NoScene)
HintUnavailable == HintValue("fallback", <<>>, NoScene)
GenerateHint(history, scene, ok) ==
    IF ok THEN HintValue("text", history, scene) ELSE HintUnavailable

(* GameState of types.ts *)
Start == "Start"
Playing == "Playing"
End == "End"

Init ==
    /\ gameState = Start
    /\ currentScene = NoScene
    /\ storyHistory = <<>>
    /\ isLoading = FALSE
    /\ hint = NoHint
    /\ isHintLoading = FALSE
    /\ isHintUsed = FALSE
    /\ bgMusicPlaying = FALSE
    /\ sceneRequests = <<>>
    /\ hintRequests = <<>>
    /\ issued = 0
    /\ hintsIssued = 0
    /\ parsedJson = NoScene
    /\ returned = NoScene

(* Variant: fetchScene keeps the displayed scene while the next one loads. *)
MutFetchSceneIssue(history) ==
    /\ isLoading' = TRUE
    /\ currentScene' = currentScene
    /\ hint' = NoHint
    /\ isHintUsed' = FALSE
    /\ sceneRequests' = Append(sceneRequests, SceneRequest(history, issued + 1))
    /\ issued' = issued + 1
    /\ hintsIssued' = 0

(***************************************************************************)
(* fetchScene up to its await: the four state updates and the call of      *)
(* generateStoryScene, which sends the request built from `history`.       *)
(***************************************************************************)
FetchSceneIssue(history) ==
    /\ isLoading' = TRUE
    /\ currentScene' = NoScene
    /\ hint' = NoHint
    /\ isHintUsed' = FALSE
    /\ sceneRequests' = Append(sceneRequests, SceneRequest(history, issued + 1))
    /\ issued' = issued + 1
    /\ hintsIssued' = 0

(* fetchScene after its await: request i is answered with resp. *)
Remove(q, i) == [j \in 1..(Len(q) - 1) |-> IF j < i THEN q[j] ELSE q[j + 1]]

(* The phase fetchScene sets for the scene it got. *)
PhaseFor(newScene) == IF Truthy(newScene.isEnding) THEN "End" ELSE "Playing"

(* Variant: the loading flag is not cleared when the answer arrives. *)
MutLoadingAfterAnswer == isLoading
(* setIsLoading(false) of the finally block. *)
LoadingAfterAnswer == FALSE

SceneResolved(i, resp) ==
    LET newScene == GenerateStoryScene(sceneRequests[i].history, resp) IN
    /\ sceneRequests' = Remove(sceneRequests, i)
    /\ currentScene' = newScene
    /\ gameState' = PhaseFor(newScene)
    /\ IF Truthy(newScene.isEnding)
          THEN bgMusicPlaying' = FALSE
          ELSE UNCHANGED bgMusicPlaying
    /\ isLoading' = LoadingAfterAnswer
    /\ hintsIssued' = 0
    /\ UNCHANGED <<storyHistory, hint, isHintLoading, isHintUsed, hintRequests,
                   issued, parsedJson, returned>>

(* bgMusicPlaying is what the handlers last told the audio element: TRUE
   after play(), FALSE after pause(). *)
HandleStartGame ==
    /\ bgMusicPlaying' = TRUE
    /\ storyHistory' = <<>>
    /\ FetchSceneIssue(<<>>)
    /\ UNCHANGED <<gameState, isHintLoading, hintRequests, parsedJson, returned>>

HandleResetGame ==
    /\ bgMusicPlaying' = FALSE
    /\ gameState' = Start
    /\ currentScene' = NoScene
    /\ storyHistory' = <<>>
    /\ hint' = NoHint
    /\ isHintUsed' = FALSE
    /\ hintsIssued' = 0
    /\ UNCHANGED <<isLoading, isHintLoading, sceneRequests, hintRequests,
                   issued, parsedJson, returned>>

(* Variant: the new turn replaces the earlier turns instead of following them. *)
MutNewHistory(history, scene, choice) ==
    <<[scene |-> scene.scene, choice |-> choice]>>
(* The history handleChoice builds from the rendered state. *)
NewHistory(history, scene, choice) ==
    Append(history, [scene |-> scene.scene, choice |-> choice])

HandleChoice(choice) ==
    IF currentScene = NoScene \/ isLoading
    THEN UNCHANGED vars
    ELSE LET newHistory == NewHistory(storyHistory, currentScene, choice) IN
         /\ storyHistory' = newHistory
         /\ FetchSceneIssue(newHistory)
         /\ UNCHANGED <<gameState, isHintLoading, bgMusicPlaying, hintRequests,
                        parsedJson, returned>>

(* Variant: the used flag is left as it was when the request is made. *)
MutHintUsedOnRequest == isHintUsed
(* setIsHintUsed(true), made before the hint request is awaited. *)
HintUsedOnRequest == TRUE

HandleGetHint ==
    IF currentScene = NoScene \/ isHintUsed \/ isHintLoading
    THEN UNCHANGED vars
    ELSE /\ isHintLoading' = TRUE
         /\ isHintUsed' = HintUsedOnRequest
         /\ hintRequests' = Append(hintRequests,
                                   [history |-> storyHistory, scene |-> currentScene])
         /\ hintsIssued' = hintsIssued + 1
         /\ UNCHANGED <<gameState, currentScene, storyHistory, isLoading, hint,
                        bgMusicPlaying, sceneRequests, issued, parsedJson, returned>>

(* Variant: the hint's finally block also clears the scene-loading flag. *)
MutHintResolved(i, ok) ==
    /\ hint' = GenerateHint(hintRequests[i].history, hintRequests[i].scene, ok)
    /\ isHintLoading' = FALSE
    /\ isLoading' = FALSE
    /\ hintRequests' = Remove(hintRequests, i)
    /\ UNCHANGED <<gameState, currentScene, storyHistory, isHintUsed,
                   bgMusicPlaying, sceneRequests, issued, hintsIssued, parsedJson,
                   returned>>
(* handleGetHint after its await: hint request i is answered. *)
HintResolved(i, ok) ==
    /\ hint' = GenerateHint(hintRequests[i].history, hintRequests[i].scene, ok)
    /\ isHintLoading' = FALSE
    /\ hintRequests' = Remove(hintRequests, i)
    /\ UNCHANGED <<gameState, currentScene, storyHistory, isLoading, isHintUsed,
                   bgMusicPlaying, sceneRequests, issued, hintsIssued, parsedJson,
                   returned>>

(***************************************************************************)
(* The controls renderGameState puts on the screen.                        *)
(***************************************************************************)
StartButtonShown == gameState = Start
SceneShown == gameState \in {Playing, End} /\ currentScene # NoScene
ChoiceButtonsShown == SceneShown /\ ~isLoading
HintButtonEnabled ==
    /\ SceneShown
    /\ gameState = Playing
    /\ ~(isHintUsed \/ isLoading \/ isHintLoading)
ResetButtonShown ==
    /\ gameState \in {Playing, End}
    /\ ~(isLoading /\ currentScene = NoScene)
    /\ gameState = End
    /\ ~isLoading

(* The choices a rendered scene offers: the elements of its choices array. *)
Offered(scene) == {scene.choices.a[k] : k \in 1..Len(scene.choices.a)}

ClickStartUpTo(n) ==
    /\ StartButtonShown
    /\ issued < n
    /\ HandleStartGame

ClickStart == ClickStartUpTo(MaxIssued)

ClickReset == ResetButtonShown /\ HandleResetGame

ClickChoiceUpTo(n) ==
    /\ ChoiceButtonsShown
    /\ issued < n
    /\ \E choice \in Offered(currentScene) : HandleChoice(choice)

ClickChoice == ClickChoiceUpTo(MaxIssued)

ClickHint == HintButtonEnabled /\ HandleGetHint

SceneAnswer ==
    \E i \in 1..Len(sceneRequests) : \E resp \in SceneResponses : SceneResolved(i, resp)

HintAnswer ==
    \E i \in 1..Len(hintRequests) : \E ok \in BOOLEAN : HintResolved(i, ok)

Next ==
    \/ ClickStart
    \/ ClickReset
    \/ ClickChoice
    \/ ClickHint
    \/ SceneAnswer
    \/ HintAnswer

Spec == Init /\ [][Next]_vars

(***************************************************************************)
(* The service answers or fails every call: no call stays out for ever.    *)
(***************************************************************************)
AnswerScene(id) ==
    \E i \in 1..Len(sceneRequests) :
        /\ sceneRequests[i].id = id
        /\ \E resp \in SceneResponses : SceneResolved(i, resp)

ServiceAnswers ==
    /\ \A id \in 1..MaxLiveIssued : WF_vars(AnswerScene(id))
    /\ WF_vars(HintAnswer)

StartLive == ClickStartUpTo(MaxLiveIssued)

ChoiceLive == ClickChoiceUpTo(MaxLiveIssued)

NextLive ==
    \/ StartLive
    \/ ClickReset
    \/ ChoiceLive
    \/ ClickHint
    \/ SceneAnswer
    \/ HintAnswer

SpecLive == Init /\ [][NextLive]_vars /\ ServiceAnswers

(***************************************************************************)
(* The handlers called directly, in any state, by whatever holds the       *)
(* component (the wider set of runs: no control has to be on the screen).  *)
(***************************************************************************)
(* Every choice text a scene of the model offers. *)
ChoiceTexts == {"A", "B", "restart"}
(* The text passed to handleChoice when it is called directly. *)
DirectChoices == {"A"}

CallStart == issued < MaxIssued /\ HandleStartGame

CallReset == HandleResetGame

CallChoice == issued < MaxIssued /\ \E choice \in DirectChoices : HandleChoice(choice)

CallHint == HandleGetHint

NextDirect ==
    \/ CallStart
    \/ CallReset
    \/ CallChoice
    \/ CallHint
    \/ SceneAnswer
    \/ HintAnswer

SpecDirect == Init /\ [][NextDirect]_vars

(***************************************************************************)
(* The shape check alone: the parsed object is drawn from objects whose    *)
(* fields are absent, null, well typed or wrongly typed, and the check is  *)
(* applied to it once.                                                     *)
(***************************************************************************)
SceneFieldValues == {Undefined, Null, Str(""), Str("X"), Num("7")}
ChoicesFieldValues == {Undefined, Null, Arr(<<>>), Arr(<<"A">>), Str("A")}
EndingFieldValues == {Undefined, Null, Bool(TRUE), Bool(FALSE), Str("yes")}
ToneFieldValues == {Undefined, Str("neutral")}
ParsedObjects ==
    {Obj(sc, ch, en, ty) : sc \in SceneFieldValues, ch \in ChoicesFieldValues,
                           en \in EndingFieldValues, ty \in ToneFieldValues}

InitShape ==
    /\ gameState = Start
    /\ currentScene = NoScene
    /\ storyHistory = <<>>
    /\ isLoading = FALSE
    /\ hint = NoHint
    /\ isHintLoading = FALSE
    /\ isHintUsed = FALSE
    /\ bgMusicPlaying = FALSE
    /\ sceneRequests = <<>>
    /\ hintRequests = <<>>
    /\ issued = 0
    /\ hintsIssued = 0
    /\ parsedJson \in ParsedObjects
    /\ returned = NoScene

CheckShape ==
    /\ returned = NoScene
    /\ returned' = GenerateStoryScene(<<>>, Json(parsedJson))
    /\ UNCHANGED <<gameState, currentScene, storyHistory, isLoading, hint,
                   isHintLoading, isHintUsed, bgMusicPlaying, sceneRequests,
                   hintRequests, issued, hintsIssued, parsedJson>>

NextShape == CheckShape

SpecShape == InitShape /\ [][NextShape]_vars

(***************************************************************************)
(* Claims                                                                  *)
(***************************************************************************)
IsPrefix(p, q) == Len(p) <= Len(q) /\ \A k \in 1..Len(p) : p[k] = q[k]

(* C1: in every reachable state at most one scene-generation request is in
   flight. *)
C1_AtMostOneSceneRequest == Len(sceneRequests) <= 1

(* C2: whenever a scene request is in flight, chooseOption(c) is a no-op for
   every choice c: history, current scene, phase, hint state and loading flag
   are unchanged and no further scene request is issued. *)
C2_ChoiceIgnoredWhileInFlight ==
    [][\A c \in ChoiceTexts :
          (sceneRequests # <<>> /\ HandleChoice(c))
              => UNCHANGED <<appVars, sceneRequests>>]_vars

(* C3: the only changes of phase are Start->Playing, Start->Ended,
   Playing->Ended and Ended->Start; in particular never Ended->Playing. *)
LegalPhaseChanges ==
    {<<Start, Playing>>, <<Start, End>>, <<Playing, End>>, <<End, Start>>}
C3_OnlyLegalPhaseChanges ==
    [][gameState' # gameState => <<gameState, gameState'>> \in LegalPhaseChanges]_vars

(* C4: chooseOption invoked in phase Ended or in phase Start is a no-op: no
   Turn is appended to the history and no scene request is issued. *)
C4_ChoiceOnlyInPlaying ==
    [][\A c \in ChoiceTexts :
          (gameState \in {Start, End} /\ HandleChoice(c))
              => (storyHistory' = storyHistory /\ sceneRequests' = sceneRequests)]_vars

(* C5: an accepted chooseOption(c) made with history h and current scene S
   changes the history to h followed by the single Turn {S.narrative, c} and
   issues one scene request carrying that extended history; a step that is
   neither a reset nor a start only ever extends the history by appending. *)
C5_ChoiceAppendsOneTurn ==
    [][/\ (Len(sceneRequests') > Len(sceneRequests) /\ storyHistory' # <<>>)
            => /\ \E c \in Offered(currentScene) :
                     storyHistory' =
                         storyHistory \o <<[scene |-> currentScene.scene, choice |-> c]>>
               /\ Len(sceneRequests') = Len(sceneRequests) + 1
               /\ SubSeq(sceneRequests', 1, Len(sceneRequests)) = sceneRequests
               /\ sceneRequests'[Len(sceneRequests')].history = storyHistory'
       /\ storyHistory' # <<>>
            => /\ IsPrefix(storyHistory, storyHistory')
               /\ Len(storyHistory') <= Len(storyHistory) + 1]_vars

(* C5 witness: a second choice has been accepted: the history holds two
   turns and the request just issued carries exactly that history. *)
C5_Witness ==
    /\ Len(storyHistory) = 2
    /\ isLoading
    /\ sceneRequests # <<>>
    /\ sceneRequests[Len(sceneRequests)].history = storyHistory

(* C6: the state right after resetGame() has phase Start, empty history, no
   current scene and a fully cleared hint state (text absent, used = false,
   pending = false). *)
C6_ResetClearsEverything ==
    [][HandleResetGame
          => /\ gameState' = Start
             /\ storyHistory' = <<>>
             /\ currentScene' = NoScene
             /\ hint' = NoHint
             /\ ~isHintUsed'
             /\ ~isHintLoading']_vars

(* C7: for each scene installed as current scene at most one hint request is
   ever issued: a hint request is issued only when none was issued for the
   scene before, it sets used in the same step, and from then on no further
   request is issued for that scene. *)
C7_OneHintPerScene ==
    /\ [](hintsIssued <= 1)
    /\ [][Len(hintRequests') > Len(hintRequests)
             => (hintsIssued = 0 /\ ~isHintUsed /\ isHintUsed'
                 /\ currentScene' = currentScene /\ currentScene # NoScene)]_vars
    /\ [][(isHintUsed /\ currentScene # NoScene /\ currentScene' = currentScene)
             => (isHintUsed' /\ hintRequests' \in {hintRequests} \cup
                    {Remove(hintRequests, k) : k \in 1..Len(hintRequests)})]_vars

(* C7 witness: the one hint request of the scene on the screen has been
   answered, and the scene is still there with used set. *)
C7_Witness ==
    /\ currentScene # NoScene
    /\ hintsIssued = 1
    /\ isHintUsed
    /\ ~isHintLoading
    /\ hint # NoHint

(* C8: hint state is scoped to the current scene: when a scene becomes the
   current scene the hint state is reset (text absent, used = false), and a
   hint text present in a state was produced by a request issued for the
   scene (and history) current in that state. *)
C8_HintScopedToScene ==
    /\ [](hint.kind = "text"
             => (hint.scene = currentScene /\ hint.history = storyHistory))
    /\ [][(currentScene' # currentScene /\ currentScene' # NoScene)
             => (hint' = NoHint /\ ~isHintUsed')]_vars

(* C9: a failing service call (transport or parsing) yields the fixed
   fallback scene, which is ending, offers a choice and is tagged negative;
   the completion of a failed request leaves the fallback scene as current
   scene and the phase Ended. *)
ServiceFailures == {TransportError, NotJson, JsonNull}
C9_FailureYieldsFallbackAndEnds ==
    [][\A i \in 1..Len(sceneRequests) : \A resp \in ServiceFailures :
          SceneResolved(i, resp)
              => /\ currentScene'.scene = Str(FallbackNarrative)
                 /\ currentScene'.isEnding = Bool(TRUE)
                 /\ currentScene'.choices.t = "array"
                 /\ Len(currentScene'.choices.a) > 0
                 /\ currentScene'.sceneType = Str("negative")
                 /\ gameState' = End
                 /\ ~isLoading']_vars

(* C9 witness: a request issued by chooseOption has failed: the fallback
   scene is on the screen after at least one turn, in phase Ended. *)
C9_Witness ==
    /\ storyHistory # <<>>
    /\ currentScene.scene = Str(FallbackNarrative)
    /\ gameState = End
    /\ ~isLoading
    /\ sceneRequests = <<>>

(* C10: the parsed object is returned as the Scene exactly when narrative is
   a text, choices an array and the ending flag a boolean; any other object
   yields the fixed fallback scene. *)
WellTyped(o) ==
    /\ o.scene.t = "string"
    /\ o.choices.t = "array"
    /\ o.isEnding.t = "boolean"
C10_ReturnedIffWellTyped ==
    returned # NoScene
        => IF WellTyped(parsedJson)
              THEN returned = parsedJson
              ELSE returned.scene = Str(FallbackNarrative)

(* C11: every scene installed as current scene that is not ending has a
   non-empty choices list, so in every state with phase Playing and no scene
   request in flight at least one choice can be made. *)
C11_PlayingAlwaysHasAChoice ==
    /\ (currentScene # NoScene /\ ~Truthy(currentScene.isEnding))
           => Offered(currentScene) # {}
    /\ (gameState = Playing /\ sceneRequests = <<>>)
           => (ChoiceButtonsShown /\ Offered(currentScene) # {})

(* The ids of the scene requests that are out. *)
PendingIds(q) == {q[k].id : k \in 1..Len(q)}

(* C12: scene transitions follow the order of issue: a choice issues its
   request only when no request is in flight, answers are applied in the
   order the requests were issued, and the scene installed by an answer is
   the answer to the most recently issued request. *)
C12_AnswersInIssueOrder ==
    [][/\ (Len(sceneRequests') > Len(sceneRequests) /\ storyHistory' # <<>>)
            => sceneRequests = <<>>
       /\ Len(sceneRequests') < Len(sceneRequests)
            => /\ sceneRequests' = Tail(sceneRequests)
               /\ PendingIds(sceneRequests) \ PendingIds(sceneRequests') = {issued}]_vars

(* C13: startGame() from Start clears the history and issues one scene
   request carrying the empty history, leaving the phase Start; the phase
   leaves Start only when that request (the one issued last) completes, and
   then becomes Playing with the returned scene as current scene if the
   scene is not ending, Ended if it is. *)
C13_StartThenFirstScene ==
    [][/\ (gameState = Start /\ Len(sceneRequests') > Len(sceneRequests))
            => /\ storyHistory' = <<>>
               /\ gameState' = Start
               /\ Len(sceneRequests') = Len(sceneRequests) + 1
               /\ SubSeq(sceneRequests', 1, Len(sceneRequests)) = sceneRequests
               /\ sceneRequests'[Len(sceneRequests')].history = <<>>
       /\ (gameState = Start /\ gameState' # Start)
            => /\ PendingIds(sceneRequests) \ PendingIds(sceneRequests') = {issued}
               /\ currentScene' # NoScene
               /\ gameState' = IF currentScene'.isEnding = Bool(TRUE) THEN End ELSE Playing]_vars

(* C14: if the service answers or fails every call, every scene request
   that is issued eventually completes, its completion installs a current
   scene and clears the loading flag in the same step, so from a state with
   a scene request in flight a state with a scene and loading = false is
   reached, and a pending hint request eventually clears the pending flag. *)
C14_RequestsComplete ==
    /\ \A id \in 1..MaxLiveIssued :
           (id \in PendingIds(sceneRequests)) ~> (id \notin PendingIds(sceneRequests))
    /\ (sceneRequests # <<>>) ~> (currentScene # NoScene /\ ~isLoading)
    /\ [][Len(sceneRequests') < Len(sceneRequests)
             => (currentScene' # NoScene /\ ~isLoading')]_vars
    /\ (hintRequests # <<>>) ~> (hintRequests = <<>> /\ ~isHintLoading)

(* C14 witness: a scene request and a hint request have both been answered:
   a scene stands with loading and pending cleared and the hint filled. *)
C14_Witness ==
    /\ issued > 0
    /\ sceneRequests = <<>>
    /\ currentScene # NoScene
    /\ ~isLoading
    /\ hintRequests = <<>>
    /\ hint # NoHint
    /\ ~isHintLoading

(* C15: the prompt of a request with the empty history is the opening
   prompt, with no transcript; the prompt of a request with history h is the
   continuation prompt whose transcript has one entry per Turn of h, in the
   order of h, entry i numbered i and carrying the scene text of turn i
   followed by its choice. *)
EntryNumbers == <<"1", "2", "3", "4", "5", "6", "7", "8", "9">>
PromptEmbeds(prompt, h) ==
    IF h = <<>>
    THEN prompt = <<"opening instruction">>
    ELSE /\ Len(prompt) = 8 * Len(h) + 1
         /\ prompt[1] = "continuation: the story so far"
         /\ prompt[Len(prompt)] = "continuation: what to write next"
         /\ \A i \in 1..Len(h) :
               LET b == 8 * (i - 1) + 1 IN
               /\ prompt[b + 1] = "Scene "
               /\ prompt[b + 2] = EntryNumbers[i]
               /\ prompt[b + 3] = ": "
               /\ prompt[b + 4] = h[i].scene.s
               /\ prompt[b + 5] = "\n"
               /\ prompt[b + 6] = "Choice made: "
               /\ prompt[b + 7] = h[i].choice
               /\ i < Len(h) => prompt[b + 8] = "\n\n"
C15_PromptEmbedsHistory ==
    \A k \in 1..Len(sceneRequests) :
        PromptEmbeds(sceneRequests[k].prompt, sceneRequests[k].history)

(* C15 witness: a request is out whose history holds two turns. *)
C15_Witness ==
    \E k \in 1..Len(sceneRequests) :
        /\ Len(sceneRequests[k].history) = 2
        /\ Len(sceneRequests[k].prompt) = 17

(* C16: the completion of a hint request, whether the service answered or
   failed, changes only the hint text (to the answer or to the fixed
   placeholder) and the hint pending flag: phase, current scene, history and
   the scene-loading flag stay as they are; and a choice of a displayed scene
   is accepted whether or not a hint is pending or has failed. *)
ChoiceAccepted == ClickChoice /\ Len(storyHistory') = Len(storyHistory) + 1
C16_HintLeavesGameAlone ==
    /\ [][Len(hintRequests') < Len(hintRequests)
             => /\ UNCHANGED <<gameState, currentScene, storyHistory, isLoading,
                              sceneRequests, isHintUsed>>
                /\ hint'.kind \in {"text", "fallback"}
                /\ ~isHintLoading']_vars
    /\ []((/\ SceneShown
           /\ ~isLoading
           /\ Offered(currentScene) # {}
           /\ issued < MaxIssued
           /\ (isHintLoading \/ hint = HintUnavailable))
              => ENABLED ChoiceAccepted)

(* C16 witness: a hint request made during play has failed: the placeholder
   is the hint, the scene is still displayed and its choices can be made. *)
C16_Witness ==
    /\ gameState = Playing
    /\ currentScene # NoScene
    /\ ~isLoading
    /\ hint = HintUnavailable
    /\ ~isHintLoading
    /\ isHintUsed
    /\ Offered(currentScene) # {}

(* C17: the ambient audio follows the phase: startGame starts it, applying
   a scene flagged ending and resetGame stop it, so in every reachable state
   with phase End the audio is not playing and in every reachable state with
   phase Playing the audio is playing. *)
C17_AudioFollowsPhase ==
    /\ [](gameState = End => ~bgMusicPlaying)
    /\ [](gameState = Playing => bgMusicPlaying)
    /\ [][/\ (gameState = Start /\ Len(sceneRequests') > Len(sceneRequests))
                => bgMusicPlaying'
          /\ (gameState # Start /\ gameState' = Start) => ~bgMusicPlaying'
          /\ (Len(sceneRequests') < Len(sceneRequests) /\ gameState' = End)
                => ~bgMusicPlaying']_vars

(* C18: after resetGame the phase stays Start and no scene is present until
   startGame is called again: the completion of a scene request issued
   before the reset changes neither phase, current scene nor loading flag.
   Phase Start with the loading flag clear is the state resetGame leaves (and
   the initial one); a request pending there was issued before the reset. *)
C18_ResetGameStaysReset ==
    [][(gameState = Start /\ ~isLoading)
          => /\ gameState' = Start
             /\ currentScene' = NoScene
             /\ Len(sceneRequests') < Len(sceneRequests)
                   => UNCHANGED <<gameState, currentScene, isLoading>>]_vars

(* C19: phase and current scene agree in every reachable state: with a scene
   present the phase is not Start, it is End exactly when the scene's
   isEnding flag is true and Playing exactly when it is false; with phase
   Start no scene is present. *)
C19_PhaseMatchesScene ==
    /\ currentScene # NoScene
          => /\ gameState # Start
             /\ gameState = End <=> currentScene.isEnding = Bool(TRUE)
             /\ gameState = Playing <=> currentScene.isEnding = Bool(FALSE)
    /\ gameState = Start => currentScene = NoScene

(* C20: while the scene-loading flag is set no scene is present; the step
   that issues a scene request sets the flag with the hint absent and unused;
   while the flag is set no choice and no hint request is accepted; and every
   completion of a scene request sets the current scene and clears the flag
   in one step. *)
C20_LoadingMeansNoScene ==
    /\ [](isLoading => currentScene = NoScene)
    /\ [][/\ Len(sceneRequests') > Len(sceneRequests)
                => /\ isLoading'
                   /\ currentScene' = NoScene
                   /\ hint' = NoHint
                   /\ ~isHintUsed'
          /\ isLoading
                => /\ Len(storyHistory') <= Len(storyHistory)
                   /\ Len(hintRequests') <= Len(hintRequests)
          /\ Len(sceneRequests') < Len(sceneRequests)
                => /\ currentScene' # NoScene
                   /\ ~isLoading']_vars

(* C20 witness: a choice made after a used hint is loading: a scene request
   is pending with a history turn, the flag is set, no scene, no hint. *)
C20_Witness ==
    /\ isLoading
    /\ sceneRequests # <<>>
    /\ storyHistory # <<>>
    /\ currentScene = NoScene
    /\ hint = NoHint
    /\ ~isHintUsed
    /\ hintRequests # <<>>

====
